---- MODULE Spec2Model ----
(***************************************************************************)
(* CrateDigger cloud functions (functions/src/index 2.ts, second variant   *)
(* of the file, lines 295-943): the callable functions processPlaylist and *)
(* searchMarketplace, the retry helper retryWithBackoff and the provider   *)
(* searches, as one state machine.  One call runs per behaviour; the       *)
(* Firestore collections are the persistent state.                         *)
(***************************************************************************)
EXTENDS Integers, Sequences, FiniteSets, TLC

\* ---------------------------------------------------------------- bounds
MaxItems == 2          \* longest playlist the video listing returns
MaxRetriesArg == 4     \* largest maxRetries passed to retryWithBackoff directly
MaxBaseDelay == 2      \* largest baseDelay passed to retryWithBackoff directly

\* ------------------------------------------------------ program constants
DefaultMaxRetries == 3
DefaultBaseDelay == 1000

\* ------------------------------------------------------------ JS values
Null == [null |-> TRUE]         \* null / undefined of an object-valued slot
NoAuth == "no-auth"             \* context.auth is undefined
Undefined == "undefined"        \* a missing string-valued request field
NoVideoId == "no-video-id"      \* item.snippet?.resourceId?.videoId is undefined
NoUrl == <<"no-url">>           \* data.url missing or not a string
LoneSurrogate == "\\uD800"      \* a string encodeURIComponent rejects

Uids == {"u1", "u2"}

HttpsError(code, message) == [kind |-> "error", code |-> code, message |-> message]
JsError(message) == [isError |-> TRUE, message |-> message]

VARIABLES
  playlists,          \* collection 'playlists': sequence of documents, id = index
  processedTracks,    \* collection 'processedTracks': sequence of documents, id = index
  call,               \* the function that was called in this behaviour
  req,                \* data and context of the call
  pc,                 \* position of the handler
  resp,               \* what the caller receives
  io,                 \* kinds of outbound I/O the call has issued
  fetched,            \* processPlaylist: playlistItems.list has resolved
  items,              \* processPlaylist: playlistResponse.data.items || []
  idx,                \* processPlaylist: index of the item whose write is awaited
  processed,          \* processPlaylist: local array processedTracks
  playlistRef,        \* processPlaylist: id of the playlist document
  settled,            \* searchMarketplace: state of the four provider promises
  order,              \* searchMarketplace: providers in the order they settled
  erred,              \* searchMarketplace: catch blocks of the providers that ran
  releaseUrl,         \* searchDiscogs: release URL once the search found one
  marketplaceResults, \* searchMarketplace: local array marketplaceResults
  rb,                 \* the running retryWithBackoff call
  cancelled,          \* the caller's deadline passed / the caller gave up
  ex,                 \* the running extractTrackInfo call
  ns,                 \* createSearchableString applied to one text
  fm,                 \* the running fuzzyMatchTrack call
  sd,                 \* searchDiscogs choosing among the listings of a release
  up                  \* the tracks collection and the running uploadTracksToFirestore calls

vars == <<playlists, processedTracks, call, req, pc, resp, io, fetched, items, idx,
          processed, playlistRef, settled, order, erred, releaseUrl,
          marketplaceResults, rb, cancelled, ex, ns, fm, sd, up>>

storeVars == <<playlists, processedTracks>>
ppVars == <<fetched, items, idx, processed, playlistRef>>
smVars == <<settled, order, erred, releaseUrl, marketplaceResults>>
callVars == <<call, req, pc, resp, io, ppVars, smVars, rb, cancelled>>
pureVars == <<ex, ns, fm, sd, up>>

\* ------------------------------------------------ Firestore, as it starts
\* userApiKeys documents and functions.config(): u1 stored keys, u2 did not
\* and the project configuration holds none.
UserApiKeys == [u \in Uids |->
  IF u = "u1" THEN [youtubeApiKey |-> "yt-key", discogsApiKey |-> "dc-key"]
              ELSE Null]
ConfigYoutubeKey == Null

InitPlaylists == << [userId |-> "u1", status |-> "completed"],
                    [userId |-> "u2", status |-> "completed"] >>
InitTracks ==
  << [userId |-> "u1", playlistId |-> 1, item |-> 1, youtubeVideoId |-> "v0",
      marketplaceResults |-> <<>>],
     [userId |-> "u2", playlistId |-> 2, item |-> 1, youtubeVideoId |-> "v0",
      marketplaceResults |-> <<>>] >>

\* ---------------------------------------------------------- retry record
IdleRetry == [caller |-> "none", pc |-> "idle", attempt |-> 0, maxRetries |-> 0,
              baseDelay |-> 0, lastError |-> Null, result |-> Null,
              thrown |-> Null, calls |-> 0, log |-> <<>>]

Providers == <<"discogs", "beatport", "bandcamp", "juno">>
ProviderSet == {Providers[i] : i \in 1..Len(Providers)}
Pending == [status |-> "pending", value |-> Null]

Init ==
  /\ playlists = InitPlaylists
  /\ processedTracks = InitTracks
  /\ call = "none"
  /\ req = Null
  /\ pc = "idle"
  /\ resp = [kind |-> "none"]
  /\ io = {}
  /\ fetched = FALSE
  /\ items = <<>>
  /\ idx = 0
  /\ processed = <<>>
  /\ playlistRef = 0
  /\ settled = [p \in ProviderSet |-> Pending]
  /\ order = <<>>
  /\ erred = {}
  /\ releaseUrl = Null
  /\ marketplaceResults = <<>>
  /\ rb = IdleRetry
  /\ cancelled = FALSE
  /\ ex = [pc |-> "idle"]
  /\ ns = [pc |-> "idle"]
  /\ fm = [pc |-> "idle"]
  /\ sd = [pc |-> "idle"]
  /\ up = [tracks |-> <<>>, run |-> [u \in 1..2 |-> [pc |-> "idle"]]]

\* ====================================================== processPlaylist

\* extractPlaylistId (308-322).  A URL is a sequence of tokens; the pattern
\* /[?&]list=([a-zA-Z0-9_-]+)/ matches a "?list=" or "&list=" token that is
\* followed by a token of id characters, and the first match is returned.
IdTokens == {"PL1"}
ListParams == {"?list=", "&list="}
Urls == { NoUrl, <<>>,
          <<"https://youtu.be/", "abc">>,
          <<"https://www.youtube.com/playlist", "?list=">>,
          <<"https://www.youtube.com/playlist", "?list=", "PL1">>,
          <<"https://www.youtube.com/watch", "?v=", "abc", "&list=", "PL1">> }

ListMatches(url) ==
  {i \in 1..Len(url) : url[i] \in ListParams /\ i < Len(url) /\ url[i+1] \in IdTokens}

ExtractPlaylistId(url) ==
  IF ListMatches(url) = {} THEN "null"
  ELSE url[(CHOOSE i \in ListMatches(url) : \A j \in ListMatches(url) : i <= j) + 1]

\* The guards before the try block, in the order of the code (437-467);
\* "ok" when none of them throws.
\* IdentityOk with a fault: only the presence of userId is checked.
IdentityOk_presentOnly(r) == r.userId # Undefined

\* userId !== context.auth.uid (454, 854)
IdentityOk(r) == r.userId = r.auth

PPValidate(r) ==
  IF r.auth = NoAuth THEN HttpsError("unauthenticated", "User must be authenticated to process playlists")
  ELSE IF r.url = NoUrl \/ r.url = <<>> THEN HttpsError("invalid-argument", "YouTube playlist URL is required")
  ELSE IF ~IdentityOk(r) THEN HttpsError("permission-denied", "User ID does not match authenticated user")
  ELSE IF ExtractPlaylistId(r.url) = "null" THEN HttpsError("invalid-argument", "Invalid YouTube playlist URL")
  ELSE [kind |-> "ok"]

\* catch (error) of processPlaylist (583-589): every error thrown inside the
\* try block, an HttpsError included, leaves as HttpsError('internal', message).
PPCatch(error) == HttpsError("internal", error.message)

PPRequests == [auth : Uids \cup {NoAuth}, url : Urls, userId : Uids \cup {Undefined}]

\* onCall entry up to the first await (435-472).
PP_Start ==
  /\ call = "none"
  /\ \E r \in PPRequests :
       /\ req' = r
       /\ call' = "processPlaylist"
       /\ IF PPValidate(r).kind = "error"
            THEN /\ resp' = PPValidate(r)
                 /\ pc' = "done"
                 /\ io' = io
            ELSE /\ resp' = resp
                 /\ pc' = "awaitKeys"
                 /\ io' = io \cup {"storeRead"}
  /\ UNCHANGED <<pureVars, storeVars, ppVars, smVars, rb, cancelled>>

\* userApiKeys get settles (472-489): on a key, playlistItems.list is requested.
PP_Keys ==
  /\ call = "processPlaylist" /\ pc = "awaitKeys"
  /\ \/ /\ resp' = PPCatch(JsError("firestore unavailable"))
        /\ pc' = "done"
        /\ io' = io
     \/ /\ IF UserApiKeys[req.userId] = Null /\ ConfigYoutubeKey = Null
             THEN /\ resp' = PPCatch(HttpsError("failed-precondition",
                                 "YouTube API key not configured. Please add your API key in Settings."))
                  /\ pc' = "done"
                  /\ io' = io
             ELSE /\ resp' = resp
                  /\ pc' = "awaitList"
                  /\ io' = io \cup {"videoList"}
  /\ UNCHANGED <<pureVars, storeVars, call, req, ppVars, smVars, rb, cancelled>>

\* The item sequences the video listing can return.
VideoIds == {"v1", NoVideoId}
ItemLists == UNION {[1..n -> [videoId : VideoIds]] : n \in 0..MaxItems}

\* if (!videoId) continue (529)
SkipItem(item) == item.videoId = NoVideoId

\* The for loop (524-569) from position i: the next item that is written.
NextItem_skipsOne(its, i) ==
  LET rest == {j \in (i+2)..Len(its) : ~SkipItem(its[j])}
  IN IF rest = {} THEN 0 ELSE CHOOSE j \in rest : \A k \in rest : j <= k

NextItem(its, i) ==
  LET rest == {j \in (i+1)..Len(its) : ~SkipItem(its[j])}
  IN IF rest = {} THEN 0 ELSE CHOOSE j \in rest : \A k \in rest : j <= k

\* playlistItems.list settles (484-507).
PP_List ==
  /\ call = "processPlaylist" /\ pc = "awaitList"
  /\ \/ /\ resp' = PPCatch(JsError("youtube unavailable"))
        /\ pc' = "done"
        /\ UNCHANGED <<io, fetched, items>>
     \/ \E its \in ItemLists :
          /\ fetched' = TRUE
          /\ items' = its
          /\ IF Len(its) = 0
               THEN /\ resp' = PPCatch(HttpsError("not-found", "Playlist is empty or not accessible"))
                    /\ pc' = "done"
                    /\ io' = io
               ELSE /\ resp' = resp
                    /\ pc' = "awaitPlaylistSet"
                    /\ io' = io \cup {"storeWrite"}
  /\ UNCHANGED <<pureVars, storeVars, call, req, idx, processed, playlistRef, smVars, rb, cancelled>>

\* playlistRef.set settles (500-514); then the user's tracks are queried.
PP_PlaylistSet ==
  /\ call = "processPlaylist" /\ pc = "awaitPlaylistSet"
  /\ \/ /\ resp' = PPCatch(JsError("firestore unavailable"))
        /\ pc' = "done"
        /\ UNCHANGED <<playlists, playlistRef, io>>
     \/ /\ playlists' = Append(playlists, [userId |-> req.userId, status |-> "processing"])
        /\ playlistRef' = Len(playlists) + 1
        /\ pc' = "awaitTracks"
        /\ io' = io \cup {"storeRead"}
        /\ resp' = resp
  /\ UNCHANGED <<pureVars, processedTracks, call, req, fetched, items, idx, processed, smVars, rb, cancelled>>

\* What follows the loop body at position i: the next write, or the final
\* status update when no item is left (524-575).
PPAdvance(i) ==
  /\ idx' = NextItem(items, i)
  /\ pc' = IF NextItem(items, i) = 0 THEN "awaitUpdate" ELSE "awaitTrackSet"

\* The tracks query settles (510-543).
PP_Tracks ==
  /\ call = "processPlaylist" /\ pc = "awaitTracks"
  /\ \/ /\ resp' = PPCatch(JsError("firestore unavailable"))
        /\ pc' = "done"
        /\ UNCHANGED idx
     \/ /\ PPAdvance(0)
        /\ resp' = resp
  /\ UNCHANGED <<pureVars, storeVars, call, req, io, fetched, items, processed, playlistRef, smVars, rb, cancelled>>

\* processedTrackRef.set settles (542-569).
PP_TrackSet ==
  /\ call = "processPlaylist" /\ pc = "awaitTrackSet"
  /\ \/ /\ resp' = PPCatch(JsError("firestore unavailable"))
        /\ pc' = "done"
        /\ UNCHANGED <<processedTracks, processed, idx>>
     \/ /\ processedTracks' = Append(processedTracks,
              [userId |-> req.userId, playlistId |-> playlistRef, item |-> idx,
               youtubeVideoId |-> items[idx].videoId, marketplaceResults |-> <<>>])
        /\ processed' = Append(processed, Len(processedTracks) + 1)
        /\ PPAdvance(idx)
        /\ resp' = resp
  /\ UNCHANGED <<pureVars, playlists, call, req, io, fetched, items, playlistRef, smVars, rb, cancelled>>

\* playlistRef.update settles (572-582).
PP_Update ==
  /\ call = "processPlaylist" /\ pc = "awaitUpdate"
  /\ \/ /\ resp' = PPCatch(JsError("firestore unavailable"))
        /\ UNCHANGED playlists
     \/ /\ playlists' = [playlists EXCEPT ![playlistRef].status = "completed"]
        /\ resp' = [kind |-> "ok", success |-> TRUE, playlistId |-> playlistRef,
                    tracksProcessed |-> Len(processed), tracks |-> processed]
  /\ pc' = "done"
  /\ UNCHANGED <<pureVars, processedTracks, call, req, io, fetched, items, idx, processed, playlistRef,
                 smVars, rb, cancelled>>

PPNext == PP_Start \/ PP_Keys \/ PP_List \/ PP_PlaylistSet \/ PP_Tracks \/ PP_TrackSet \/ PP_Update

\* ====================================================== retryWithBackoff

RECURSIVE Pow2(_)
Pow2(n) == IF n <= 0 THEN 1 ELSE 2 * Pow2(n - 1)

\* lastError = error instanceof Error ? error : new Error(String(error)) (606)
ToError(error) == IF error.isError THEN error ELSE JsError(error.message)

RecordError_keepsFirst(r, error) == IF r.lastError = Null THEN ToError(error) ELSE r.lastError

RecordError(r, error) == ToError(error)

\* const delay = baseDelay * Math.pow(2, attempt) (608)
BackoffDelay_offByOne(baseDelay, attempt) == baseDelay * Pow2(attempt + 1)

BackoffDelay(baseDelay, attempt) == baseDelay * Pow2(attempt)

\* attempt < maxRetries (602) and attempt < maxRetries - 1 (607)
LoopContinues_givesUp(r) == r.attempt < 1
LoopContinues(r) == r.attempt < r.maxRetries

SleepsAfterFailure(r) == r.attempt < r.maxRetries - 1

Event(ev, n, val) == [ev |-> ev, n |-> n, val |-> val]

\* A call of retryWithBackoff(fn, maxRetries, baseDelay) by `caller` (595-600).
NewRetry(caller, maxRetries, baseDelay) ==
  [caller |-> caller, pc |-> "loop", attempt |-> 0, maxRetries |-> maxRetries,
   baseDelay |-> baseDelay, lastError |-> Null, result |-> Null, thrown |-> Null,
   calls |-> 0, log |-> <<>>]

\* What fn can settle with, per caller: the value it resolves with or the
\* error it rejects with.
HarnessValues == {[v |-> 1], [v |-> 2]}
HarnessErrors == {[isError |-> TRUE, message |-> "e1"], [isError |-> TRUE, message |-> "e2"],
                  [isError |-> FALSE, message |-> "s"]}

NoPrice == Null
Price(n) == [value |-> n, currency |-> "USD"]
ListingResponses ==
  { <<>>,
    << [condition |-> "Good (G)", price |-> Price(3)] >>,
    << [condition |-> "Very Good (VG)", price |-> Price(5)],
       [condition |-> "Very Good (VG)", price |-> Price(2)] >>,
    << [condition |-> "Near Mint (NM or M-)", price |-> Price(0)],
       [condition |-> "Mint (M)", price |-> NoPrice] >> }

FnValues(caller) ==
  IF caller = "harness" THEN HarnessValues
  ELSE IF caller = "search" THEN {[results |-> <<>>], [results |-> <<[id |-> 7]>>]}
  ELSE {[listings |-> ls] : ls \in ListingResponses}

FnErrors(caller) ==
  IF caller = "harness" THEN HarnessErrors ELSE {JsError("Network Error")}

\* retryWithBackoff called directly, with every small maxRetries and baseDelay.
Retry_Start ==
  /\ call = "none"
  /\ \E m \in 0..MaxRetriesArg, b \in 1..MaxBaseDelay :
       rb' = NewRetry("harness", m, b)
  /\ call' = "retryWithBackoff"
  /\ pc' = "awaitRetry"
  /\ UNCHANGED <<pureVars, storeVars, req, resp, io, ppVars, smVars, cancelled>>

\* The loop head with another attempt left: fn() is invoked (602-604).
Retry_Invoke ==
  /\ rb.pc = "loop"
  /\ LoopContinues(rb)
  /\ rb' = [rb EXCEPT !.pc = "await", !.calls = @ + 1,
                      !.log = Append(@, Event("call", rb.calls + 1, Null))]
  /\ UNCHANGED <<pureVars, storeVars, call, req, pc, resp, io, ppVars, smVars, cancelled>>

\* fn() resolves: return await fn() (604).
Retry_FnResolves ==
  /\ rb.pc = "await"
  /\ \E v \in FnValues(rb.caller) :
       rb' = [rb EXCEPT !.pc = "returned", !.result = v,
                        !.log = Append(@, Event("ok", rb.calls, v))]
  /\ UNCHANGED <<pureVars, storeVars, call, req, pc, resp, io, ppVars, smVars, cancelled>>

\* fn() rejects: the catch block (605-611).
Retry_FnRejects ==
  /\ rb.pc = "await"
  /\ \E e \in FnErrors(rb.caller) :
       LET failed == Append(rb.log, Event("fail", rb.calls, e)) IN
       IF SleepsAfterFailure(rb)
         THEN rb' = [rb EXCEPT !.pc = "sleep", !.lastError = RecordError(rb, e),
                       !.log = Append(failed,
                                 Event("sleep", BackoffDelay(rb.baseDelay, rb.attempt), Null))]
         ELSE rb' = [rb EXCEPT !.pc = "loop", !.lastError = RecordError(rb, e),
                       !.attempt = @ + 1, !.log = failed]
  /\ UNCHANGED <<pureVars, storeVars, call, req, pc, resp, io, ppVars, smVars, cancelled>>

\* The setTimeout promise resolves; attempt++ (602, 609).
Retry_Wake ==
  /\ rb.pc = "sleep"
  /\ rb' = [rb EXCEPT !.pc = "loop", !.attempt = @ + 1]
  /\ UNCHANGED <<pureVars, storeVars, call, req, pc, resp, io, ppVars, smVars, cancelled>>

\* The loop is left: throw lastError || new Error('Max retries exceeded') (614).
Retry_Throw ==
  /\ rb.pc = "loop"
  /\ ~LoopContinues(rb)
  /\ rb' = [rb EXCEPT !.pc = "thrown",
              !.thrown = IF rb.lastError # Null THEN rb.lastError
                         ELSE JsError("Max retries exceeded")]
  /\ UNCHANGED <<pureVars, storeVars, call, req, pc, resp, io, ppVars, smVars, cancelled>>

\* The caller's context is cancelled or times out while the policy is inside
\* an attempt or between attempts.  retryWithBackoff takes no signal and
\* reads no deadline (595-599), so nothing of the policy changes.
Cancel ==
  /\ rb.pc \in {"await", "sleep"}
  /\ ~cancelled
  /\ cancelled' = TRUE
  /\ UNCHANGED <<pureVars, storeVars, call, req, pc, resp, io, ppVars, smVars, rb>>

\* The direct call ends with the value or the error of the policy.
Retry_Done ==
  /\ call = "retryWithBackoff" /\ pc = "awaitRetry"
  /\ rb.pc \in {"returned", "thrown"}
  /\ pc' = "done"
  /\ resp' = IF rb.pc = "returned" THEN [kind |-> "ok", value |-> rb.result]
             ELSE [kind |-> "error", code |-> "thrown", message |-> rb.thrown.message]
  /\ UNCHANGED <<pureVars, storeVars, call, req, io, ppVars, smVars, rb, cancelled>>

RetryNext == Retry_Start \/ Retry_Invoke \/ Retry_FnResolves \/ Retry_FnRejects
             \/ Retry_Wake \/ Retry_Throw \/ Cancel \/ Retry_Done

\* ====================================================== provider searches

\* encodeURIComponent (745, 780, 815) throws URIError on a lone surrogate.
Malformed(artist, title) == artist = LoneSurrogate \/ title = LoneSurrogate

SearchBase(p) ==
  IF p = "beatport" THEN "https://www.beatport.com/search?q="
  ELSE IF p = "bandcamp" THEN "https://bandcamp.com/search?q="
  ELSE "https://www.junodownload.com/search/?q[all][]="

\* searchBeatport / searchBandcamp / searchJuno (733-830): the search URL of
\* `${artist} ${title}`, or null from the catch block.
DigitalSearch(p, artist, title) ==
  IF Malformed(artist, title) THEN Null
  ELSE [url |-> [base |-> SearchBase(p), q |-> <<artist, title>>],
        price |-> Null, format |-> Null, available |-> FALSE]

\* searchDiscogs, choice of the listing (675-708).
PreferredConditions ==
  <<"Mint (M)", "Near Mint (NM or M-)", "Very Good Plus (VG+)", "Very Good (VG)">>

\* l.price && parseFloat(l.price.value) > 0
Positive(l) == l.price # Null /\ l.price.value > 0

\* listings.find(...) for one condition (683-685): index of the first hit, 0 if none.
FindCondition(ls, condition) ==
  LET hits == {i \in 1..Len(ls) : ls[i].condition = condition /\ Positive(ls[i])}
  IN IF hits = {} THEN 0 ELSE CHOOSE i \in hits : \A j \in hits : i <= j

\* The loop over preferredConditions (682-690), from condition k with best so far.
RECURSIVE PreferredBest(_, _, _)
PreferredBest(ls, k, best) ==
  IF k > Len(PreferredConditions) THEN best
  ELSE LET i == FindCondition(ls, PreferredConditions[k])
       IN IF i # 0 /\ (best = 0 \/ ls[i].price.value < ls[best].price.value)
            THEN PreferredBest(ls, k + 1, i)
            ELSE PreferredBest(ls, k + 1, best)

\* The fallback (693-700): first of the positive-priced listings sorted by price.
CheapestAvailable_first(ls) ==
  LET avail == {i \in 1..Len(ls) : Positive(ls[i])}
  IN IF avail = {} THEN 0 ELSE CHOOSE i \in avail : \A j \in avail : i <= j
CheapestAvailable(ls) ==
  LET avail == {i \in 1..Len(ls) : Positive(ls[i])}
  IN IF avail = {} THEN 0
     ELSE CHOOSE i \in avail :
            \A j \in avail : \/ ls[i].price.value < ls[j].price.value
                             \/ (ls[i].price.value = ls[j].price.value /\ i <= j)

SelectListing(ls) ==
  IF PreferredBest(ls, 1, 0) # 0 THEN PreferredBest(ls, 1, 0) ELSE CheapestAvailable(ls)

\* The value searchDiscogs returns once the listings call resolved (702-714).
DiscogsOffer(url, ls) ==
  IF SelectListing(ls) # 0
    THEN [url |-> url, price |-> ls[SelectListing(ls)].price,
          condition |-> ls[SelectListing(ls)].condition]
    ELSE [url |-> url, price |-> Null, condition |-> Null]

\* The inner catch block of searchDiscogs (715-723): the release without a price.
DiscogsDegraded_null(url) == Null
DiscogsDegraded(url) == [url |-> url, price |-> Null, condition |-> Null]

\* ====================================================== searchMarketplace

Artists == {"", "Daft Punk", LoneSurrogate}
Titles == {"", "One More Time"}
Remixes == {"null", "Radio Edit"}
NoTrackId == 0
TrackIds == {NoTrackId, 1, 2, 3}

SMRequests == [auth : Uids \cup {NoAuth}, artist : Artists, title : Titles, remix : Remixes,
               userId : Uids \cup {Undefined}, processedTrackId : TrackIds]

\* The guards before the try block, in the order of the code (837-859).
SMValidate(r) ==
  IF r.auth = NoAuth THEN HttpsError("unauthenticated", "User must be authenticated to search marketplaces")
  ELSE IF r.artist = "" \/ r.title = "" THEN HttpsError("invalid-argument", "Artist and title are required")
  ELSE IF ~IdentityOk(r) THEN HttpsError("permission-denied", "User ID does not match authenticated user")
  ELSE [kind |-> "ok"]

\* catch (error) of searchMarketplace (936-942).
SMCatch(error) == HttpsError("internal", error.message)

\* const searchQuery = remix ? ... (863)
SearchQuery(r) ==
  IF r.remix # "null" THEN <<r.artist, r.title, r.remix>> ELSE <<r.artist, r.title>>

\* onCall entry up to the first await (835-866).
SM_Start ==
  /\ call = "none"
  /\ \E r \in SMRequests :
       /\ req' = r
       /\ call' = "searchMarketplace"
       /\ IF SMValidate(r).kind = "error"
            THEN /\ resp' = SMValidate(r)
                 /\ pc' = "done"
                 /\ io' = io
            ELSE /\ resp' = resp
                 /\ pc' = "awaitKeys"
                 /\ io' = io \cup {"storeRead"}
  /\ UNCHANGED <<pureVars, storeVars, ppVars, smVars, rb, cancelled>>

\* userApiKeys get settles (866-877): the four searches are launched; the
\* release search of searchDiscogs enters retryWithBackoff (635).
SM_Keys ==
  /\ call = "searchMarketplace" /\ pc = "awaitKeys"
  /\ \/ /\ resp' = SMCatch(JsError("firestore unavailable"))
        /\ pc' = "done"
        /\ UNCHANGED <<io, rb>>
     \/ /\ pc' = "awaitAll"
        /\ io' = io \cup {"providerSearch"}
        /\ rb' = NewRetry("search", DefaultMaxRetries, DefaultBaseDelay)
        /\ resp' = resp
  /\ UNCHANGED <<pureVars, storeVars, call, req, ppVars, smVars, cancelled>>

\* A provider promise fulfils with `value`; `caught` names the catch blocks
\* of the provider that ran on the way.
Settle(p, value, caught) ==
  /\ settled' = [settled EXCEPT ![p] = [status |-> "fulfilled", value |-> value]]
  /\ order' = Append(order, p)
  /\ erred' = erred \cup caught

\* A digital-store search settles (733-830).
SM_Digital ==
  /\ call = "searchMarketplace" /\ pc = "awaitAll"
  /\ \E p \in {"beatport", "bandcamp", "juno"} :
       /\ settled[p].status = "pending"
       /\ Settle(p, DigitalSearch(p, req.artist, req.title),
                 IF Malformed(req.artist, req.title) THEN {p} ELSE {})
  /\ UNCHANGED <<pureVars, storeVars, call, req, pc, resp, io, ppVars, releaseUrl, marketplaceResults,
                 rb, cancelled>>

\* searchDiscogs: the release search returned (652-663).
Discogs_SearchReturned ==
  /\ call = "searchMarketplace" /\ pc = "awaitAll"
  /\ rb.caller = "search" /\ rb.pc = "returned"
  /\ IF Len(rb.result.results) = 0
       THEN /\ Settle("discogs", Null, {})
            /\ rb' = IdleRetry
            /\ UNCHANGED releaseUrl
       ELSE /\ releaseUrl' = [base |-> "https://www.discogs.com/release/",
                              q |-> rb.result.results[1].id]
            /\ rb' = NewRetry("listings", DefaultMaxRetries, DefaultBaseDelay)
            /\ UNCHANGED <<settled, order, erred>>
  /\ UNCHANGED <<pureVars, storeVars, call, req, pc, resp, io, ppVars, marketplaceResults, cancelled>>

\* searchDiscogs: the release search failed on every attempt (724-727).
Discogs_SearchThrew ==
  /\ call = "searchMarketplace" /\ pc = "awaitAll"
  /\ rb.caller = "search" /\ rb.pc = "thrown"
  /\ Settle("discogs", Null, {"discogs"})
  /\ rb' = IdleRetry
  /\ UNCHANGED <<pureVars, storeVars, call, req, pc, resp, io, ppVars, releaseUrl, marketplaceResults,
                 cancelled>>

\* searchDiscogs: the listings call returned (675-714).
Discogs_ListingsReturned ==
  /\ call = "searchMarketplace" /\ pc = "awaitAll"
  /\ rb.caller = "listings" /\ rb.pc = "returned"
  /\ Settle("discogs", DiscogsOffer(releaseUrl, rb.result.listings), {})
  /\ rb' = IdleRetry
  /\ UNCHANGED <<pureVars, storeVars, call, req, pc, resp, io, ppVars, releaseUrl, marketplaceResults,
                 cancelled>>

\* searchDiscogs: the listings call failed on every attempt (715-723).
Discogs_ListingsThrew ==
  /\ call = "searchMarketplace" /\ pc = "awaitAll"
  /\ rb.caller = "listings" /\ rb.pc = "thrown"
  /\ Settle("discogs", DiscogsDegraded(releaseUrl), {"discogs-listings"})
  /\ rb' = IdleRetry
  /\ UNCHANGED <<pureVars, storeVars, call, req, pc, resp, io, ppVars, releaseUrl, marketplaceResults,
                 cancelled>>

\* await Promise.allSettled([...]) (872-877) resumes when no promise is pending.
GroupSettled_any(s) == \E p \in ProviderSet : s[p].status # "pending"

GroupSettled(s) == \A p \in ProviderSet : s[p].status # "pending"

\* result.status === 'fulfilled' && result.value (882, 892, 902, 912)
Emits(s) == s.status = "fulfilled" /\ s.value # Null

\* The object pushed for provider p (883-889, 893-899, 903-909, 913-919).
ListingOf_urlAvailable(p, v) ==
  [store |-> p, url |-> v.url, price |-> v.price,
   format |-> IF p = "discogs" THEN Null ELSE v.format,
   available |-> (v.url # Null)]
ListingOf(p, v) ==
  IF p = "discogs"
    THEN [store |-> p, url |-> v.url, price |-> v.price, format |-> Null,
          available |-> (v.price # Null)]
    ELSE [store |-> p, url |-> v.url, price |-> v.price, format |-> v.format,
          available |-> v.available]

ListingsOver(ps, s) ==
  LET kept == SelectSeq(ps, LAMBDA p : Emits(s[p]))
  IN [i \in 1..Len(kept) |-> ListingOf(kept[i], s[kept[i]].value)]

\* Listings with a fault: an else-if chain that stops at the first provider
\* without a listing; pushes in completion order; the bandcamp block pushing
\* the beatport result.
Listings_chain(s) ==
  LET firstGap == {i \in 1..Len(Providers) : ~Emits(s[Providers[i]])}
      n == IF firstGap = {} THEN Len(Providers)
           ELSE (CHOOSE i \in firstGap : \A j \in firstGap : i <= j) - 1
  IN ListingsOver(SubSeq(Providers, 1, n), s)

Listings_completionOrder(s) == ListingsOver(order, s)

Listings_copyPaste(s) ==
  ListingsOver(<<"discogs", "beatport", "beatport", "juno">>, s)

\* marketplaceResults as built by the four if blocks (879-920).
Listings(s) == ListingsOver(Providers, s)

SMSuccess(results) ==
  [kind |-> "ok", success |-> TRUE, marketplaceResults |-> results, searched |-> SearchQuery(req)]

\* The group await resumes (877-935): the result is built; it is written to
\* the track when processedTrackId is given, else returned.
SM_Settled ==
  /\ call = "searchMarketplace" /\ pc = "awaitAll"
  /\ GroupSettled(settled)
  /\ marketplaceResults' = Listings(settled)
  /\ IF req.processedTrackId # NoTrackId
       THEN /\ pc' = "awaitUpdate"
            /\ io' = io \cup {"storeWrite"}
            /\ resp' = resp
       ELSE /\ pc' = "done"
            /\ io' = io
            /\ resp' = SMSuccess(Listings(settled))
  /\ UNCHANGED <<pureVars, storeVars, call, req, ppVars, settled, order, erred, releaseUrl, rb, cancelled>>

\* processedTrackRef.update settles (923-935); update() of a missing document rejects.
SM_Update ==
  /\ call = "searchMarketplace" /\ pc = "awaitUpdate"
  /\ \/ /\ resp' = SMCatch(JsError("firestore unavailable"))
        /\ UNCHANGED processedTracks
     \/ /\ req.processedTrackId \notin DOMAIN processedTracks
        /\ resp' = SMCatch(JsError("NOT_FOUND: no document to update"))
        /\ UNCHANGED processedTracks
     \/ /\ req.processedTrackId \in DOMAIN processedTracks
        /\ processedTracks' = [processedTracks EXCEPT
              ![req.processedTrackId].marketplaceResults = marketplaceResults]
        /\ resp' = SMSuccess(marketplaceResults)
  /\ pc' = "done"
  /\ UNCHANGED <<pureVars, playlists, call, req, io, ppVars, smVars, rb, cancelled>>

SMNext == SM_Start \/ SM_Keys \/ SM_Digital \/ Discogs_SearchReturned \/ Discogs_SearchThrew
          \/ Discogs_ListingsReturned \/ Discogs_ListingsThrew \/ SM_Settled \/ SM_Update

\* ====================================================== strings
\* A string is a sequence of characters; a character is a one-symbol string.
\* NullStr stands for null / undefined in a string-valued slot.
NullStr == <<"<null>">>

UpperLetters == <<"A","B","C","D","E","F","G","H","I","J","K","L","M",
                  "N","O","P","Q","R","S","T","U","V","W","X","Y","Z">>
LowerLetters == <<"a","b","c","d","e","f","g","h","i","j","k","l","m",
                  "n","o","p","q","r","s","t","u","v","w","x","y","z">>
Digits == {"0","1","2","3","4","5","6","7","8","9"}
Range(f) == {f[i] : i \in DOMAIN f}

\* Characters outside ASCII: U+00E9, U+00C9, U+0130 and U+0307.
EAcute == "e-acute"
CapitalEAcute == "E-acute"
CapitalIDot == "I-dot-above"
CombiningDot == "combining-dot-above"

\* \s, the line terminators that `.` excludes, and \w of a JavaScript RegExp.
IsSpace(c) == c \in {" ", "\t", "\n", "\r"}
IsLineTerminator(c) == c \in {"\n", "\r"}
IsWordChar(c) == c \in Range(UpperLetters) \cup Range(LowerLetters) \cup Digits \cup {"_"}

\* String.prototype.toLowerCase, character by character; U+0130 becomes two
\* characters.
LowerOf(c) ==
  IF c \in Range(UpperLetters)
    THEN <<LowerLetters[CHOOSE i \in DOMAIN UpperLetters : UpperLetters[i] = c]>>
  ELSE IF c = CapitalEAcute THEN <<EAcute>>
  ELSE IF c = CapitalIDot THEN <<"i", CombiningDot>>
  ELSE <<c>>

RECURSIVE ToLowerCase(_)
ToLowerCase(s) == IF s = <<>> THEN <<>> ELSE LowerOf(Head(s)) \o ToLowerCase(Tail(s))

\* String.prototype.trim
RECURSIVE TrimStart(_)
TrimStart(s) == IF s # <<>> /\ IsSpace(Head(s)) THEN TrimStart(Tail(s)) ELSE s
RECURSIVE TrimEnd(_)
TrimEnd(s) ==
  IF s # <<>> /\ IsSpace(s[Len(s)]) THEN TrimEnd(SubSeq(s, 1, Len(s) - 1)) ELSE s
Trim(s) == TrimEnd(TrimStart(s))

\* ====================================================== regular expressions
\* A pattern is a sequence of items, matched by backtracking in the order of
\* a JavaScript RegExp: a greedy quantifier tries the longest run first, a
\* lazy one the shortest, an alternation its branches from the left.
Cls(k, c, q) == [t |-> "cls", k |-> k, c |-> c, q |-> q, g |-> 0, alts |-> <<>>]
Open(g) == [t |-> "open", k |-> "", c |-> "", q |-> "", g |-> g, alts |-> <<>>]
Close(g) == [t |-> "close", k |-> "", c |-> "", q |-> "", g |-> g, alts |-> <<>>]
Alt(alts) == [t |-> "alt", k |-> "", c |-> "", q |-> "", g |-> 0, alts |-> alts]
EndOfInput == [t |-> "end", k |-> "", c |-> "", q |-> "", g |-> 0, alts |-> <<>>]

\* One literal character; with the i flag the comparison ignores ASCII case.
Lit(c) == Cls("lit", c, "one")
LitI(c) == Cls("liti", c, "one")
RECURSIVE WordI(_)
WordI(w) == IF w = <<>> THEN <<>> ELSE <<LitI(Head(w))>> \o WordI(Tail(w))

InClass(item, c) ==
  CASE item.k = "lit" -> c = item.c
    [] item.k = "liti" -> LowerOf(c) = <<item.c>>
    [] item.k = "space" -> IsSpace(c)                      \* \s
    [] item.k = "dot" -> ~IsLineTerminator(c)              \* .
    [] item.k = "nothyphen" -> c # "-"                     \* [^-]
    [] item.k = "notopen" -> c \notin {"[", "(", "\n"}     \* [^[(\n]
    [] item.k = "notrparen" -> c # ")"                     \* [^)]
    [] item.k = "split" -> c \in {"-", "["}                \* [-\[]

\* Length of the longest run of characters of the class from position p + 1.
RECURSIVE RunLength(_, _, _)
RunLength(item, s, p) ==
  IF p < Len(s) /\ InClass(item, s[p + 1]) THEN 1 + RunLength(item, s, p + 1) ELSE 0

NoCaptures == [g \in 1..3 |-> [from |-> 0, to |-> 0]]
NoMatch == [ok |-> FALSE, caps |-> NoCaptures, end |-> 0]
MinCount(q) == IF q \in {"star", "lazystar"} THEN 0 ELSE 1

\* Rx(re, s, p, caps): match of the items re against s after p characters.
RECURSIVE Rx(_, _, _, _)
RECURSIVE RxCount(_, _, _, _, _, _, _)
RECURSIVE RxAlt(_, _, _, _, _, _)

RxCount(re, s, p, caps, n, last, step) ==
  LET res == Rx(re, s, p + n, caps)
  IN IF res.ok THEN res
     ELSE IF n = last THEN NoMatch
     ELSE RxCount(re, s, p, caps, n + step, last, step)

RxAlt(alts, k, re, s, p, caps) ==
  LET res == Rx(alts[k] \o re, s, p, caps)
  IN IF res.ok THEN res
     ELSE IF k = Len(alts) THEN NoMatch
     ELSE RxAlt(alts, k + 1, re, s, p, caps)

Rx(re, s, p, caps) ==
  IF re = <<>> THEN [ok |-> TRUE, caps |-> caps, end |-> p]
  ELSE LET h == Head(re)
           rest == Tail(re)
           run == RunLength(h, s, p)
       IN CASE h.t = "open" -> Rx(rest, s, p, [caps EXCEPT ![h.g] = [from |-> p + 1, to |-> p]])
            [] h.t = "close" -> Rx(rest, s, p, [caps EXCEPT ![h.g].to = p])
            [] h.t = "end" -> IF p = Len(s) THEN Rx(rest, s, p, caps) ELSE NoMatch
            [] h.t = "alt" -> RxAlt(h.alts, 1, rest, s, p, caps)
            [] h.t = "cls" ->
                 IF run < MinCount(h.q) THEN NoMatch
                 ELSE IF h.q = "one" THEN Rx(rest, s, p + 1, caps)
                 ELSE IF h.q \in {"star", "plus"}
                   THEN RxCount(rest, s, p, caps, run, MinCount(h.q), -1)
                   ELSE RxCount(rest, s, p, caps, MinCount(h.q), run, 1)

\* String.prototype.match with a pattern without the g flag: the match at the
\* leftmost start position.
RECURSIVE RxSearch(_, _, _)
RxSearch(re, s, p) ==
  LET res == Rx(re, s, p, NoCaptures)
  IN IF res.ok THEN res
     ELSE IF p = Len(s) THEN NoMatch
     ELSE RxSearch(re, s, p + 1)

\* match[g]: the captured text, NullStr for a group that did not take part.
Group(s, m, g) ==
  IF m.caps[g].from = 0 THEN NullStr ELSE SubSeq(s, m.caps[g].from, m.caps[g].to)

\* ====================================================== extractTrackInfo
\* The four title patterns, in the order of the array.
patterns == <<
  \* /^([^-]+?)\s*-\s*([^[(\n]+?)(?:\s*\[.*?\])?$/i
  << Open(1), Cls("nothyphen", "", "lazyplus"), Close(1),
     Cls("space", "", "star"), Lit("-"), Cls("space", "", "star"),
     Open(2), Cls("notopen", "", "lazyplus"), Close(2),
     Alt(<< <<Cls("space", "", "star"), Lit("["), Cls("dot", "", "lazystar"), Lit("]")>>,
            <<>> >>),
     EndOfInput >>,
  \* /^(.+?)\s*\(([^)]+)\s*remix\)(?:\s*by\s*(.+?))?$/i
  << Open(1), Cls("dot", "", "lazyplus"), Close(1),
     Cls("space", "", "star"), Lit("("),
     Open(2), Cls("notrparen", "", "plus"), Close(2),
     Cls("space", "", "star") >> \o WordI(<<"r", "e", "m", "i", "x">>) \o
  << Lit(")"),
     Alt(<< <<Cls("space", "", "star")>> \o WordI(<<"b", "y">>) \o
            <<Cls("space", "", "star"), Open(3), Cls("dot", "", "lazyplus"), Close(3)>>,
            <<>> >>),
     EndOfInput >>,
  \* /^([^-]+?)\s*-\s*(.+?)\s*\(([^)]+)\s*remix\)$/i
  << Open(1), Cls("nothyphen", "", "lazyplus"), Close(1),
     Cls("space", "", "star"), Lit("-"), Cls("space", "", "star"),
     Open(2), Cls("dot", "", "lazyplus"), Close(2),
     Cls("space", "", "star"), Lit("("),
     Open(3), Cls("notrparen", "", "plus"), Close(3),
     Cls("space", "", "star") >> \o WordI(<<"r", "e", "m", "i", "x">>) \o
  << Lit(")"), EndOfInput >>,
  \* /^(.+?)\s*-\s*(.+?)$/
  << Open(1), Cls("dot", "", "lazyplus"), Close(1),
     Cls("space", "", "star"), Lit("-"), Cls("space", "", "star"),
     Open(2), Cls("dot", "", "lazyplus"), Close(2),
     EndOfInput >> >>

\* pattern.source.includes('remix')
SourceIncludesRemix(k) == k \in {2, 3}

\* title.match(pattern) of a pattern anchored with ^
Match(k, title) == Rx(patterns[k], title, 0, NoCaptures)

\* /(?:artist|by):\s*(.+?)(?:\n|$)/i
descPattern ==
  << Alt(<< WordI(<<"a", "r", "t", "i", "s", "t">>), WordI(<<"b", "y">>) >>),
     Lit(":"), Cls("space", "", "star"),
     Open(1), Cls("dot", "", "lazyplus"), Close(1),
     Alt(<< <<Lit("\n")>>, <<EndOfInput>> >>) >>

\* A string is truthy when it is neither null nor empty.
Truthy(s) == s # NullStr /\ s # <<>>
OrNull(s) == IF Truthy(s) THEN s ELSE NullStr

\* title.split(/[-\[]/)[0]
RECURSIVE BeforeSplit(_)
BeforeSplit(s) ==
  IF s = <<>> \/ InClass(Cls("split", "", "one"), Head(s)) THEN <<>>
  ELSE <<Head(s)>> \o BeforeSplit(Tail(s))

\* Raw titles: every string of at most MaxTitleLen characters of the alphabet,
\* and the sample titles of the documented forms.
MaxTitleLen == 3
TitleAlphabet == {"a", " ", "-", "(", ")", "[", "]", "\n"}
RECURSIVE StringsUpTo(_, _)
StringsUpTo(alphabet, n) ==
  IF n = 0 THEN {<<>>}
  ELSE LET shorter == StringsUpTo(alphabet, n - 1)
       IN shorter \cup {Append(s, c) : s \in shorter, c \in alphabet}

DaftPunk == <<"D", "a", "f", "t", " ", "P", "u", "n", "k">>
OneMoreTime == <<"O", "n", "e", " ", "M", "o", "r", "e", " ", "T", "i", "m", "e">>
OfficialVideo == <<"O", "f", "f", "i", "c", "i", "a", "l", " ", "V", "i", "d", "e", "o">>
RadioEdit == <<"R", "a", "d", "i", "o", " ", "E", "d", "i", "t">>
SampleArtists == {<<"A">>, DaftPunk}
SampleTrackTitles == {<<"T">>, OneMoreTime, <<"T", " ", "-", " ", "U">>}
SampleTags == {<<"x">>, OfficialVideo}
SampleRemixes == {<<"X">>, RadioEdit}

\* 'A - T [tag]', 'A - T (X remix)', 'T (X remix) by A' and 'A - T'
BracketForm(a, t, tag) == a \o <<" ", "-", " ">> \o t \o <<" ", "[">> \o tag \o <<"]">>
HyphenRemixForm(a, t, x) ==
  a \o <<" ", "-", " ">> \o t \o <<" ", "(">> \o x \o <<" ", "r", "e", "m", "i", "x", ")">>
RemixByForm(t, x, a) ==
  t \o <<" ", "(">> \o x \o <<" ", "r", "e", "m", "i", "x", ")", " ", "b", "y", " ">> \o a
HyphenForm(a, t) == a \o <<" ", "-", " ">> \o t

SampleTitles ==
  {BracketForm(a, t, g) : a \in SampleArtists, t \in SampleTrackTitles, g \in SampleTags}
  \cup {HyphenRemixForm(a, t, x) : a \in SampleArtists, t \in SampleTrackTitles,
                                   x \in SampleRemixes}
  \cup {RemixByForm(t, x, a) : t \in {<<"T">>, OneMoreTime}, x \in SampleRemixes,
                               a \in SampleArtists}
  \cup {HyphenForm(a, t) : a \in SampleArtists, t \in SampleTrackTitles}
  \cup {<<"A", "\n">> \o HyphenRemixForm(<<>>, <<"T">>, <<"X">>)}

RawTitles == StringsUpTo(TitleAlphabet, MaxTitleLen) \cup SampleTitles

\* Descriptions: absent, empty, without and with an artist:/by: line.
RawDescriptions ==
  { NullStr, <<>>, <<"s", "o", "m", "e", " ", "t", "e", "x", "t">>,
    <<"b", "y", ":", " ", "A">>,
    <<"A", "r", "t", "i", "s", "t", ":", " ">> \o DaftPunk \o <<"\n", "m", "o", "r", "e">>,
    <<"b", "y", ":", " ", "\n">> }

NewExtraction(title, description) ==
  [ pc |-> "loop", title |-> title, description |-> description, k |-> 1,
    tried |-> <<>>, matched |-> 0,
    artist |-> NullStr, trackTitle |-> NullStr, remix |-> NullStr ]

\* extractTrackInfo(title, description) is called.
Ex_Start ==
  /\ ex.pc = "idle"
  /\ \E title \in RawTitles, description \in RawDescriptions :
       ex' = NewExtraction(title, description)
  /\ UNCHANGED <<storeVars, callVars, ns, fm, sd, up>>

\* The assignments of one matching pattern.
Assign(e, k, m) ==
  LET g1 == Group(e.title, m, 1)
      g2 == Group(e.title, m, 2)
      g3 == Group(e.title, m, 3)
  IN IF SourceIncludesRemix(k)
       THEN IF Truthy(g1) /\ Truthy(g2)
              THEN [e EXCEPT !.trackTitle = Trim(g1), !.remix = Trim(g2),
                             !.artist = IF g3 = NullStr THEN NullStr ELSE OrNull(Trim(g3))]
              ELSE e
     ELSE IF Truthy(g1) /\ Truthy(g2)
       THEN [e EXCEPT !.artist = Trim(g1), !.trackTitle = Trim(g2)]
       ELSE e

\* The loop ends at the break after a match, or after the last pattern.
LoopEnds_noBreak(k, ok) == k = Len(patterns)
LoopEnds(k, ok) == ok \/ k = Len(patterns)

\* One turn of the loop over the patterns.
Ex_Try ==
  /\ ex.pc = "loop"
  /\ LET k == ex.k
         m == Match(k, ex.title)
         e == [ex EXCEPT !.tried = Append(@, k)]
         turned == IF m.ok THEN [Assign(e, k, m) EXCEPT !.matched = k] ELSE e
     IN ex' = IF LoopEnds(k, m.ok)
                THEN [turned EXCEPT !.pc = "description"]
                ELSE [turned EXCEPT !.k = k + 1]
  /\ UNCHANGED <<storeVars, callVars, ns, fm, sd, up>>

\* The artist:/by: line of the description, when no pattern gave anything.
Ex_Description ==
  /\ ex.pc = "description"
  /\ LET m == RxSearch(descPattern, ex.description, 0)
     IN ex' = IF ~Truthy(ex.artist) /\ ~Truthy(ex.trackTitle) /\ Truthy(ex.description)
                 /\ m.ok
                THEN [ex EXCEPT !.artist = Trim(Group(ex.description, m, 1)),
                                !.trackTitle = Trim(BeforeSplit(ex.title)),
                                !.pc = "final"]
                ELSE [ex EXCEPT !.pc = "final"]
  /\ UNCHANGED <<storeVars, callVars, ns, fm, sd, up>>

\* The final fallback and the return of { artist, trackTitle, remix }.
FinalTitle_noFallback(e) == e.trackTitle
FinalTitle(e) == IF ~Truthy(e.trackTitle) THEN Trim(e.title) ELSE e.trackTitle

Ex_Return ==
  /\ ex.pc = "final"
  /\ ex' = [ex EXCEPT !.trackTitle = FinalTitle(ex), !.pc = "done"]
  /\ UNCHANGED <<storeVars, callVars, ns, fm, sd, up>>

ExtractNext == Ex_Start \/ Ex_Try \/ Ex_Description \/ Ex_Return
SpecExtract == Init /\ [][ExtractNext]_vars

\* ====================================================== createSearchableString
\* .replace(/[^\w\s]/g, '')
RECURSIVE StripNonWord(_)
StripNonWord(s) ==
  IF s = <<>> THEN <<>>
  ELSE IF IsWordChar(Head(s)) \/ IsSpace(Head(s))
    THEN <<Head(s)>> \o StripNonWord(Tail(s))
    ELSE StripNonWord(Tail(s))

\* .replace(/\s+/g, ' ')
RECURSIVE CollapseWhitespace(_)
CollapseWhitespace(s) ==
  IF s = <<>> THEN <<>>
  ELSE IF IsSpace(Head(s))
    THEN <<" ">> \o CollapseWhitespace(TrimStart(s))
    ELSE <<Head(s)>> \o CollapseWhitespace(Tail(s))

\* createSearchableString of functions/src/index.ts
createSearchableString_collapseFirst(text) ==
  Trim(StripNonWord(CollapseWhitespace(ToLowerCase(text))))
createSearchableString(text) ==
  Trim(CollapseWhitespace(StripNonWord(ToLowerCase(text))))

\* createSearchableString of src/lib/rekordboxParser.ts, which builds the
\* searchableString of an imported track
createSearchableStringLib_keepsCase(text) ==
  Trim(CollapseWhitespace(StripNonWord(text)))
createSearchableStringLib(text) ==
  Trim(CollapseWhitespace(StripNonWord(ToLowerCase(text))))

\* Input texts: every string of at most MaxTextLen characters of the
\* alphabet, and some artist and title texts.
MaxTextLen == 3
TextAlphabet == {"A", "a", "1", "_", "-", " ", "\t", EAcute, CapitalIDot}
Beyonce == <<"B", "e", "y", "o", "n", "c", EAcute>>
SampleTexts ==
  { <<"a", " ", "-", " ", "b">>, DaftPunk \o <<" ">> \o OneMoreTime, Beyonce,
    <<" ", " ", "J", "a", "y", "-", "Z", ":", " ", " ">> \o
      <<"9", "9", "_", "P", "r", "o", "b", "l", "e", "m", "s", " ">>,
    <<"a", "_", "b">> }
Texts == StringsUpTo(TextAlphabet, MaxTextLen) \cup SampleTexts

\* The importer builds the key of a track from the text.
Ns_Import ==
  /\ ns.pc = "idle"
  /\ \E text \in Texts :
       ns' = [pc |-> "query", text |-> text, key |-> createSearchableStringLib(text),
              keyAgain |-> NullStr, query |-> NullStr, queryAgain |-> NullStr]
  /\ UNCHANGED <<storeVars, callVars, ex, fm, sd, up>>

\* The matcher builds the query from the same text.
Ns_Query ==
  /\ ns.pc = "query"
  /\ ns' = [ns EXCEPT !.query = createSearchableString(ns.text), !.pc = "again"]
  /\ UNCHANGED <<storeVars, callVars, ex, fm, sd, up>>

\* Both functions are applied to their own results.
Ns_Again ==
  /\ ns.pc = "again"
  /\ ns' = [ns EXCEPT !.queryAgain = createSearchableString(ns.query),
                      !.keyAgain = createSearchableStringLib(ns.key),
                      !.pc = "done"]
  /\ UNCHANGED <<storeVars, callVars, ex, fm, sd, up>>

NormalizeNext == Ns_Import \/ Ns_Query \/ Ns_Again
SpecNormalize == Init /\ [][NormalizeNext]_vars

\* ====================================================== fuzzyMatchTrack
\* Scores and thresholds are in thousandths: 550 stands for 0.55.
\* The threshold option of the two variants of fuzzyMatchTrack.
Variants == {"earlier", "current"}
Threshold_all(variant) == 1000
Threshold_default(variant) == 600
Threshold(variant) == IF variant = "earlier" THEN 300 ELSE 550

\* if (!detectedArtist || !detectedTitle)
Unsearchable_both(detectedArtist, detectedTitle) ==
  ~Truthy(detectedArtist) /\ ~Truthy(detectedTitle)
Unsearchable(detectedArtist, detectedTitle) ==
  ~Truthy(detectedArtist) \/ ~Truthy(detectedTitle)

\* Math.max(0, Math.round((1 - score) * 100)); Math.round rounds half up.
Max(a, b) == IF a >= b THEN a ELSE b
Confidence_floor(score) == Max(0, (1000 - score) \div 10)
Confidence(score) == Max(0, (1000 - score + 5) \div 10)

\* The index: at most MaxIndex tracks, with the keys the importer built.
MaxIndex == 2
DigitChars == <<"1", "2", "3", "4", "5", "6", "7", "8", "9">>
TrackIdOf(i) == <<"t", DigitChars[i]>>
IndexKeys ==
  { createSearchableStringLib(<<"A", " ", "T">>),
    createSearchableStringLib(DaftPunk \o <<" ">> \o OneMoreTime),
    createSearchableStringLib(<<"x">>) }
Indexes ==
  UNION { [1..n -> IndexKeys] : n \in 0..MaxIndex }
UserTracks(keys) ==
  [i \in DOMAIN keys |-> [id |-> TrackIdOf(i), searchableString |-> keys[i]]]

\* The score Fuse gives an entry for a query: 0 for an identical key, any of
\* the sample scores above 0 otherwise.
ScoreSamples == {0, 4, 5, 6, 300, 301, 549, 550, 551, 995, 1000}
Scorings(searchString, userTracks) ==
  { d \in [DOMAIN userTracks -> ScoreSamples] :
      \A i \in DOMAIN userTracks :
        d[i] = 0 <=> userTracks[i].searchableString = searchString }

\* fuse.search: the entries whose score is within the threshold, best first,
\* entries of equal score in the order of the index.
RECURSIVE Ranked(_, _)
Ranked(d, hits) ==
  IF hits = {} THEN <<>>
  ELSE LET best == CHOOSE i \in hits :
                     \A j \in hits : d[i] < d[j] \/ (d[i] = d[j] /\ i <= j)
       IN <<best>> \o Ranked(d, hits \ {best})
Search(userTracks, d, threshold) ==
  LET hits == {i \in DOMAIN userTracks : d[i] <= threshold}
      ranked == Ranked(d, hits)
  IN [r \in DOMAIN ranked |-> [item |-> userTracks[ranked[r]], score |-> d[ranked[r]]]]

NoMatchResult == [matchId |-> NullStr, confidence |-> 0]

\* fuzzyMatchTrack(detectedArtist, detectedTitle, userTracks) is called; the
\* guard returns at once when the artist or the title is missing.
Fm_Start ==
  /\ fm.pc = "idle"
  /\ \E variant \in Variants,
        detectedArtist \in {NullStr, <<>>, <<"A">>, DaftPunk},
        detectedTitle \in {NullStr, <<>>, <<"T">>, OneMoreTime},
        keys \in Indexes :
       LET call0 == [ pc |-> "search", variant |-> variant,
                      detectedArtist |-> detectedArtist, detectedTitle |-> detectedTitle,
                      userTracks |-> UserTracks(keys),
                      searchString |-> NullStr, searched |-> FALSE,
                      score |-> <<>>, results |-> <<>>, returned |-> NoMatchResult ]
       IN fm' = IF Unsearchable(detectedArtist, detectedTitle)
                  THEN [call0 EXCEPT !.pc = "done"]
                  ELSE call0
  /\ UNCHANGED <<storeVars, callVars, ex, ns, sd, up>>

\* The query is normalised and Fuse searches the index with the threshold.
Fm_Search ==
  /\ fm.pc = "search"
  /\ LET searchString ==
           createSearchableString(fm.detectedArtist \o <<" ">> \o fm.detectedTitle)
     IN \E d \in Scorings(searchString, fm.userTracks) :
          fm' = [fm EXCEPT !.searchString = searchString, !.searched = TRUE,
                           !.score = d,
                           !.results = Search(fm.userTracks, d, Threshold(fm.variant)),
                           !.pc = "convert"]
  /\ UNCHANGED <<storeVars, callVars, ex, ns, sd, up>>

\* The best result, if there is one, is converted and returned.
Fm_Return ==
  /\ fm.pc = "convert"
  /\ fm' = [fm EXCEPT
              !.returned =
                 IF Len(fm.results) > 0
                   THEN [matchId |-> fm.results[1].item.id,
                         confidence |-> Confidence(fm.results[1].score)]
                   ELSE NoMatchResult,
              !.pc = "done"]
  /\ UNCHANGED <<storeVars, callVars, ex, ns, sd, up>>

MatchNext == Fm_Start \/ Fm_Search \/ Fm_Return
SpecMatch == Init /\ [][MatchNext]_vars

\* ====================================================== searchDiscogs, the listings
\* marketplaceResponse.data.listings: at most MaxListings listings, each
\* with a condition and no price, a price of 0 or a positive price.
MaxListings == 3
ListingConditions == {"Mint (M)", "Very Good (VG)", "Good (G)", "Fair (F)"}
ListingPrices == {NoPrice, Price(0), Price(2), Price(5)}
ListingValues == [condition : ListingConditions, price : ListingPrices]
ListingLists == UNION { [1..n -> ListingValues] : n \in 0..MaxListings }
TopRelease == [base |-> "https://www.discogs.com/release/", q |-> 7]

\* The listings call of searchDiscogs resolves (662-675).
Sd_Listings ==
  /\ sd.pc = "idle"
  /\ \E ls \in ListingLists :
       sd' = [pc |-> "choose", listings |-> ls, value |-> Null, pushed |-> Null]
  /\ UNCHANGED <<storeVars, callVars, ex, ns, fm, up>>

\* searchDiscogs chooses a listing and returns (677-714).
Sd_Return ==
  /\ sd.pc = "choose"
  /\ sd' = [sd EXCEPT !.value = DiscogsOffer(TopRelease, sd.listings), !.pc = "returned"]
  /\ UNCHANGED <<storeVars, callVars, ex, ns, fm, up>>

\* searchMarketplace pushes the discogs result (882-890).
Sd_Push ==
  /\ sd.pc = "returned"
  /\ sd' = [sd EXCEPT !.pushed = ListingOf("discogs", sd.value), !.pc = "pushed"]
  /\ UNCHANGED <<storeVars, callVars, ex, ns, fm, up>>

DiscogsNext == Sd_Listings \/ Sd_Return \/ Sd_Push
SpecDiscogs == Init /\ [][DiscogsNext]_vars

\* ====================================================== uploadTracksToFirestore
\* The tracks collection holds the documents of one user; a track is
\* identified by its searchableString.  Two uploads of that user can run at
\* the same time (two tabs or devices).  BATCH_SIZE is 500 in the program
\* and scaled down here, as are the uploads, to MaxTracks tracks each.
BATCH_SIZE == 2
MaxTracks == 3
Uploads == 1..2
TrackKeys == {"a", "b", "c"}
TrackLists == UNION { [1..n -> TrackKeys] : n \in 0..MaxTracks }
Min(a, b) == IF a <= b THEN a ELSE b

\* filterDuplicates: the loop over the tracks with the set of known keys.
RECURSIVE NewTracks(_, _)
NewTracks(tracks, existing) ==
  IF tracks = <<>> THEN <<>>
  ELSE IF Head(tracks) \in existing THEN NewTracks(Tail(tracks), existing)
  ELSE <<Head(tracks)>> \o NewTracks(Tail(tracks), existing \cup {Head(tracks)})

UploadResult(p) ==
  [success |-> p.successCount, failed |-> p.failedCount, duplicates |-> p.duplicates]

NewUpload(tracks) ==
  [ pc |-> "filter", tracks |-> tracks, newTracks |-> <<>>, duplicates |-> 0,
    i |-> 0, k |-> 0, successCount |-> 0, failedCount |-> 0,
    commits |-> 0, failedCommits |-> {}, singles |-> {}, rejected |-> {},
    result |-> Null ]

Returns(p) == [p EXCEPT !.pc = "done", !.result = UploadResult(p)]

\* batchTracks = newTracks.slice(i, i + BATCH_SIZE), as positions of newTracks.
BatchOf(p) == (p.i + 1)..Min(p.i + BATCH_SIZE, Len(p.newTracks))
BatchTracks(p) == SubSeq(p.newTracks, p.i + 1, Min(p.i + BATCH_SIZE, Len(p.newTracks)))

\* i += BATCH_SIZE and the loop test; the return after the last batch.
NextBatch_abort(p) == Returns(p)
NextBatch(p) ==
  IF p.i + BATCH_SIZE < Len(p.newTracks)
    THEN [p EXCEPT !.i = p.i + BATCH_SIZE, !.pc = "commit"]
    ELSE Returns(p)

\* The files uploaded: any list for the first upload; for the second, the
\* same file again or one of two other files.
OtherFiles == {<<"c">>, <<"b", "a">>}
FilesFor(u) ==
  IF u = 1 THEN TrackLists
  ELSE IF up.run[1].pc = "idle" THEN {}
  ELSE {up.run[1].tracks} \cup OtherFiles

\* uploadTracksToFirestore(tracks, userId) is called (67-76).
Up_Start ==
  /\ \E u \in Uploads :
     \E tracks \in FilesFor(u) :
       /\ up.run[u].pc = "idle"
       /\ up' = [up EXCEPT !.run[u] =
                    IF Len(tracks) = 0 THEN Returns(NewUpload(tracks))
                    ELSE NewUpload(tracks)]
  /\ UNCHANGED <<storeVars, callVars, ex, ns, fm, sd>>

\* getDocs resolves with the tracks stored at that moment (41-80), or rejects.
Up_Filter ==
  /\ \E u \in Uploads :
       LET p == up.run[u]
           existing == {up.tracks[d] : d \in DOMAIN up.tracks}
           new == NewTracks(p.tracks, existing)
           q == [p EXCEPT !.newTracks = new, !.duplicates = Len(p.tracks) - Len(new)]
       IN /\ p.pc = "filter"
          /\ \/ up' = [up EXCEPT !.run[u] =
                         IF Len(new) = 0 THEN Returns(q) ELSE [q EXCEPT !.pc = "commit"]]
             \/ up' = [up EXCEPT !.run[u] = [p EXCEPT !.pc = "thrown"]]
  /\ UNCHANGED <<storeVars, callVars, ex, ns, fm, sd>>

\* batch.commit() settles (88-106): all tracks of the batch are stored, or
\* none is and the individual writes begin.
Up_Commit ==
  /\ \E u \in Uploads :
       LET p == [up.run[u] EXCEPT !.commits = @ + 1]
       IN /\ p.pc = "commit"
          /\ \/ up' = [up EXCEPT
                         !.tracks = @ \o BatchTracks(p),
                         !.run[u] = NextBatch([p EXCEPT
                                       !.successCount = @ + Len(BatchTracks(p))])]
             \/ up' = [up EXCEPT
                         !.run[u] = [p EXCEPT !.pc = "single", !.k = p.i + 1,
                                               !.failedCommits = @ \cup BatchOf(p)]]
  /\ UNCHANGED <<storeVars, callVars, ex, ns, fm, sd>>

\* setDoc of one track of a failed batch settles (108-125).
Up_SetDoc ==
  /\ \E u \in Uploads :
       LET p == [up.run[u] EXCEPT !.singles = @ \cup {up.run[u].k}]
           after(q) == IF p.k + 1 \in BatchOf(p) THEN [q EXCEPT !.k = p.k + 1]
                       ELSE NextBatch(q)
       IN /\ p.pc = "single"
          /\ \/ up' = [up EXCEPT
                         !.tracks = Append(@, p.newTracks[p.k]),
                         !.run[u] = after([p EXCEPT !.successCount = @ + 1])]
             \/ up' = [up EXCEPT
                         !.run[u] = after([p EXCEPT !.failedCount = @ + 1,
                                                   !.rejected = @ \cup {p.k}])]
  /\ UNCHANGED <<storeVars, callVars, ex, ns, fm, sd>>

UploadNext == Up_Start \/ Up_Filter \/ Up_Commit \/ Up_SetDoc
SpecUpload == Init /\ [][UploadNext]_vars

Next == PPNext \/ RetryNext \/ SMNext

Spec == Init /\ [][Next]_vars

\* ====================================================== properties

\* searchMarketplace has resumed from the group await.
Aggregated ==
  call = "searchMarketplace" /\ "providerSearch" \in io /\ pc \in {"awaitUpdate", "done"}

Stores(results) == {results[i].store : i \in DOMAIN results}
Pos(p) == CHOOSE i \in 1..Len(Providers) : Providers[i] = p
StoreFailures == {"firestore unavailable", "NOT_FOUND: no document to update"}

\* C1: when a proper subset of the providers errors, searchMarketplace still
\* returns the listing of every remaining provider that found something, an
\* erroring provider is absent from the result, and the call fails only when
\* the write to the track record fails, never because of a provider error.
FailSoft ==
  (Aggregated /\ ~(ProviderSet \subseteq erred)) =>
    /\ \A p \in ProviderSet :
         /\ p \in erred => p \notin Stores(marketplaceResults)
         /\ (p \notin erred /\ settled[p].value # Null) =>
              \E i \in DOMAIN marketplaceResults :
                /\ marketplaceResults[i].store = p
                /\ marketplaceResults[i].url = settled[p].value.url
    /\ pc = "done" =>
         \/ resp.kind = "ok" /\ resp.marketplaceResults = marketplaceResults
         \/ /\ resp.kind = "error"
            /\ req.processedTrackId # NoTrackId
            /\ resp.message \in StoreFailures

FailSoftWitness ==
  /\ Aggregated /\ pc = "done" /\ resp.kind = "ok"
  /\ erred = {"discogs"}
  /\ Stores(resp.marketplaceResults) = {"beatport", "bandcamp", "juno"}

\* C2: the result is built, written and returned only when none of the four
\* provider promises is pending, also when a provider failed first.
SettleAll ==
  (call = "searchMarketplace" /\ (pc = "awaitUpdate" \/ marketplaceResults # <<>>
                                   \/ (pc = "done" /\ "providerSearch" \in io))) =>
     \A p \in ProviderSet : settled[p].status # "pending"

SettleAllWitness ==
  /\ Aggregated /\ pc = "done" /\ resp.kind = "ok"
  /\ order = <<"beatport", "bandcamp", "juno", "discogs">>
  /\ "beatport" \in erred
  /\ settled["discogs"].value # Null
  /\ req.processedTrackId = 1
  /\ processedTracks[1].marketplaceResults = resp.marketplaceResults
  /\ Len(resp.marketplaceResults) = 1

\* C3: the listings are in registration order (discogs, beatport, bandcamp,
\* juno), whatever the order in which the searches settled.
RegistrationOrder ==
  \A i, j \in DOMAIN marketplaceResults :
     i < j => Pos(marketplaceResults[i].store) < Pos(marketplaceResults[j].store)

RegistrationOrderWitness ==
  /\ Aggregated /\ pc = "done" /\ resp.kind = "ok"
  /\ order = <<"juno", "bandcamp", "beatport", "discogs">>
  /\ Len(resp.marketplaceResults) = 4
  /\ resp.marketplaceResults[1].store = "discogs"
  /\ resp.marketplaceResults[4].store = "juno"

\* C4: the result has at most one listing per registered provider: at most N
\* listings, no store name twice.
OnePerProvider ==
  /\ Len(marketplaceResults) <= Len(Providers)
  /\ \A i, j \in DOMAIN marketplaceResults :
       marketplaceResults[i].store = marketplaceResults[j].store => i = j

OnePerProviderWitness ==
  /\ Aggregated /\ pc = "done" /\ resp.kind = "ok"
  /\ Len(resp.marketplaceResults) = Len(Providers)

\* Events of one kind in the log of the running retryWithBackoff call.
EventsOf(ev) == {i \in DOMAIN rb.log : rb.log[i].ev = ev}
LastOf(ev) == CHOOSE i \in EventsOf(ev) : \A j \in EventsOf(ev) : j <= i

\* C5: retryWithBackoff invokes fn at most maxRetries times, returns the value
\* of the first successful invocation with no invocation after it, and after
\* maxRetries failures throws the error of the last invocation.
RetryContract ==
  /\ rb.calls <= rb.maxRetries
  /\ Cardinality(EventsOf("call")) = rb.calls
  /\ rb.pc = "returned" =>
       /\ EventsOf("ok") = {Len(rb.log)}
       /\ rb.log[Len(rb.log)].n = rb.calls
       /\ rb.result = rb.log[Len(rb.log)].val
  /\ (rb.pc = "thrown" /\ rb.maxRetries >= 1) =>
       /\ rb.calls = rb.maxRetries
       /\ EventsOf("ok") = {}
       /\ rb.log[LastOf("fail")].n = rb.maxRetries
       /\ rb.thrown.message = rb.log[LastOf("fail")].val.message

RetryContractWitness ==
  /\ rb.caller = "harness" /\ rb.pc = "thrown" /\ rb.maxRetries = 3
  /\ rb.log[2].ev = "fail" /\ rb.log[2].val.message = "e1"
  /\ rb.thrown.message = "e2"

\* C6: the first attempt is not delayed; attempt k >= 2 directly follows a
\* suspension of baseDelay * 2^(k-2), which directly follows the failure of
\* attempt k-1; no suspension follows the failure of attempt maxRetries.
BackoffSchedule ==
  \A i \in DOMAIN rb.log :
    /\ (rb.log[i].ev = "call" /\ rb.log[i].n = 1) => i = 1
    /\ (rb.log[i].ev = "call" /\ rb.log[i].n >= 2) =>
         /\ i >= 3
         /\ rb.log[i-1].ev = "sleep"
         /\ rb.log[i-1].n = rb.baseDelay * Pow2(rb.log[i].n - 2)
         /\ rb.log[i-2].ev = "fail"
         /\ rb.log[i-2].n = rb.log[i].n - 1
    /\ rb.log[i].ev = "sleep" =>
         /\ i >= 2
         /\ rb.log[i-1].ev = "fail"
         /\ rb.log[i-1].n < rb.maxRetries
    /\ (rb.log[i].ev = "fail" /\ rb.log[i].n < rb.maxRetries) =>
         (i < Len(rb.log) /\ rb.log[i+1].ev = "sleep")

BackoffScheduleWitness ==
  /\ rb.caller = "harness" /\ rb.pc = "thrown"
  /\ rb.maxRetries = 4 /\ rb.baseDelay = 2
  /\ Len(rb.log) = 11
  /\ rb.log[3].n = 2 /\ rb.log[6].n = 4 /\ rb.log[9].n = 8
  /\ rb.log[11].ev = "fail"

\* C7: once the caller's context is cancelled, retryWithBackoff makes no
\* further attempt.
CancelStopsRetry == [][cancelled => rb'.calls <= rb.calls]_vars

\* C8: a call of processPlaylist or searchMarketplace without an authenticated
\* identity, or whose userId differs from the authenticated uid, is answered
\* with an error and has issued no store read or write, no video listing
\* request and no provider search.
FailClosed ==
  (call \in {"processPlaylist", "searchMarketplace"}
     /\ (req.auth = NoAuth \/ req.userId # req.auth)) =>
    /\ resp.kind = "error"
    /\ pc = "done"
    /\ io = {}
    /\ playlists = InitPlaylists /\ processedTracks = InitTracks
    /\ rb.calls = 0 /\ order = <<>> /\ ~fetched

FailClosedWitness ==
  /\ call = "searchMarketplace"
  /\ req.auth = "u1" /\ req.userId = "u2"
  /\ req.artist = "Daft Punk" /\ req.title = "One More Time" /\ req.processedTrackId = 2
  /\ resp.kind = "error" /\ resp.code = "permission-denied"

\* C9: when the video listing returns zero items, processPlaylist fails with
\* 'not-found' and creates no playlist job and no track record.
SourceEmptyNotFound ==
  (call = "processPlaylist" /\ fetched /\ Len(items) = 0) =>
    /\ resp.kind = "error" /\ resp.code = "not-found"
    /\ playlists = InitPlaylists /\ processedTracks = InitTracks

\* Track records of this run that were written for item i.
RecordsOf(i) ==
  {t \in DOMAIN processedTracks :
     processedTracks[t].playlistId = playlistRef /\ processedTracks[t].item = i}
WithVideoId == {i \in DOMAIN items : items[i].videoId # NoVideoId}

\* C10 as stated: a call that ends, ends with an error or with success where
\* every item of the video listing has exactly one track record and
\* tracksProcessed counts every item.
AllItemsProcessed ==
  (call = "processPlaylist" /\ pc = "done") =>
    \/ resp.kind = "error"
    \/ /\ resp.kind = "ok"
       /\ \A i \in DOMAIN items : Cardinality(RecordsOf(i)) = 1
       /\ resp.tracksProcessed = Len(items)

\* C10 amended: a call that ends, ends with an error or with success where
\* every item that has a video id has exactly one track record, an item
\* without a video id has none, and tracksProcessed is the number of items
\* that have a video id.
AllIdentifiedItemsProcessed ==
  (call = "processPlaylist" /\ pc = "done") =>
    \/ resp.kind = "error"
    \/ /\ resp.kind = "ok"
       /\ \A i \in DOMAIN items :
            Cardinality(RecordsOf(i)) = IF i \in WithVideoId THEN 1 ELSE 0
       /\ resp.tracksProcessed = Cardinality(WithVideoId)
       /\ Len(processedTracks) = Len(InitTracks) + Cardinality(WithVideoId)

AllIdentifiedItemsProcessedWitness ==
  /\ call = "processPlaylist" /\ pc = "done" /\ resp.kind = "ok"
  /\ Len(items) = 2
  /\ items[1].videoId = NoVideoId /\ items[2].videoId = "v1"
  /\ resp.tracksProcessed = 1

\* ------------------------------------------------------------ extraction
IsBlank(s) == \A i \in DOMAIN s : IsSpace(s[i])
Extracted == ex.pc = "done"
DescMatch == RxSearch(descPattern, ex.description, 0)

\* C11 as stated: extractTrackInfo returns a non-null title for every title
\* and description, and for an empty or whitespace-only title the result is
\* exactly artist null, title "", remix null.
BlankTitleAllNull ==
  Extracted =>
    /\ ex.trackTitle # NullStr
    /\ IsBlank(ex.title) =>
         ex.artist = NullStr /\ ex.trackTitle = <<>> /\ ex.remix = NullStr

\* C11 amended: extractTrackInfo returns a non-null title for every title and
\* description; for an empty or whitespace-only title the title is "" and the
\* remix null, and the artist is null when the description is absent, empty
\* or has no artist:/by: line, and the trimmed value of that line otherwise.
BlankTitleArtistFromDescription ==
  Extracted =>
    /\ ex.trackTitle # NullStr
    /\ IsBlank(ex.title) =>
         /\ ex.trackTitle = <<>> /\ ex.remix = NullStr
         /\ ex.matched = 0
         /\ ex.artist = IF Truthy(ex.description) /\ DescMatch.ok
                          THEN Trim(Group(ex.description, DescMatch, 1))
                          ELSE NullStr

BlankTitleArtistFromDescriptionWitness ==
  /\ Extracted /\ ex.title = <<" ", " ">>
  /\ ex.description = <<"b", "y", ":", " ", "A">>
  /\ ex.artist = <<"A">> /\ ex.trackTitle = <<>> /\ ex.remix = NullStr

\* C12: for a title of the form 'ARTIST - TITLE (X remix)', ARTIST without a
\* hyphen, extractTrackInfo returns artist = ARTIST, title = TITLE and
\* remix = X.
HyphenRemixCombined ==
  \A a \in SampleArtists, t \in SampleTrackTitles, x \in SampleRemixes :
    (Extracted /\ ex.title = HyphenRemixForm(a, t, x)) =>
      ex.artist = a /\ ex.trackTitle = t /\ ex.remix = x

Matching(title) == {k \in DOMAIN patterns : Match(k, title).ok}
FirstMatching(title) ==
  IF Matching(title) = {} THEN 0
  ELSE CHOOSE k \in Matching(title) : \A j \in Matching(title) : k <= j
AfterLoop == ex.pc \in {"description", "final", "done"}

Missing(s) == s = NullStr \/ s = <<>>

\* C14: for every index, if the artist or the title is null or empty then
\* fuzzyMatchTrack returns {matchId: null, confidence: 0} and the index is
\* never searched.
MissingFieldNoSearch ==
  (fm.pc # "idle" /\ (Missing(fm.detectedArtist) \/ Missing(fm.detectedTitle))) =>
    /\ fm.pc = "done"
    /\ ~fm.searched /\ fm.results = <<>>
    /\ fm.returned.matchId = NullStr /\ fm.returned.confidence = 0

\* Daft Punk without a title, against an index that holds a Daft Punk track.
MissingFieldNoSearchWitness ==
  /\ fm.pc = "done"
  /\ fm.detectedArtist = DaftPunk /\ fm.detectedTitle = <<>>
  /\ Len(fm.userTracks) = 2
  /\ fm.userTracks[1].searchableString =
       createSearchableStringLib(DaftPunk \o <<" ">> \o OneMoreTime)
  /\ ~fm.searched /\ fm.returned = [matchId |-> NullStr, confidence |-> 0]

Returned == fm.pc = "done"

Matched == Returned /\ fm.searched /\ Len(fm.results) > 0

\* C16: when a best entry with distance d is found, the confidence returned
\* is max(0, round((1 - d) * 100)), the integer nearest to (1 - d) * 100: it
\* is an integer from 0 to 100, it is 100 for d = 0, and a lower distance
\* never gives a lower confidence.
ConfidenceIsRoundedComplement ==
  /\ Matched =>
       LET d == fm.results[1].score
           c == fm.returned.confidence
       IN /\ c \in 0..100
          /\ 10 * c - 5 <= 1000 - d /\ 1000 - d < 10 * c + 5
          /\ d = 0 => c = 100
  /\ \A d1 \in ScoreSamples, d2 \in ScoreSamples :
       /\ Confidence(d1) \in 0..100
       /\ d1 <= d2 => Confidence(d1) >= Confidence(d2)

\* Scores 0.301 and 0.549 under the current threshold: the best gives 70.
ConfidenceIsRoundedComplementWitness ==
  /\ Matched /\ fm.variant = "current"
  /\ Len(fm.results) = 2
  /\ fm.results[1].score = 301 /\ fm.results[2].score = 549
  /\ fm.returned.confidence = 70

Normalized == ns.pc = "done"
JayZ ==
  <<" ", " ", "J", "a", "y", "-", "Z", ":", " ", " ",
    "9", "9", "_", "P", "r", "o", "b", "l", "e", "m", "s", " ">>
JayZKey == <<"j", "a", "y", "z", " ", "9", "9", "_", "p", "r", "o", "b", "l", "e", "m", "s">>

\* C18: createSearchableString is idempotent: applied to its own result it
\* returns that result, in the functions and in the importer.
Idempotent ==
  Normalized => ns.queryAgain = ns.query /\ ns.keyAgain = ns.key

\* 'a - b', where the stripped hyphen leaves two spaces to collapse.
IdempotentWitness ==
  /\ Normalized /\ ns.text = <<"a", " ", "-", " ", "b">>
  /\ ns.query = <<"a", " ", "b">> /\ ns.queryAgain = <<"a", " ", "b">>

IsLetter(c) ==
  c \in Range(UpperLetters) \cup Range(LowerLetters) \cup {EAcute, CapitalEAcute, CapitalIDot}
IsLowerLetter(c) == c \in Range(LowerLetters) \cup {EAcute}
LettersAndDigits(s) == SelectSeq(s, LAMBDA c : IsLetter(c) \/ c \in Digits)

\* C19: the result of createSearchableString holds only lower-case letters,
\* digits and single spaces: every character that is not a letter, a digit
\* or whitespace is removed, every letter and digit is kept, runs of
\* whitespace become one space and nothing leads or trails.
OnlyLettersDigitsSpaces ==
  Normalized =>
    /\ \A i \in DOMAIN ns.query :
         IsLowerLetter(ns.query[i]) \/ ns.query[i] \in Digits \/ ns.query[i] = " "
    /\ LettersAndDigits(ns.query) = LettersAndDigits(ToLowerCase(ns.text))
    /\ \A i \in 1..(Len(ns.query) - 1) : ~(ns.query[i] = " " /\ ns.query[i + 1] = " ")
    /\ ns.query # <<>> => ns.query[1] # " " /\ ns.query[Len(ns.query)] # " "

\* C20: the key of the index and the query are built by the same
\* normalisation: the createSearchableString of the importer and that of
\* fuzzyMatchTrack return the same result for every text.
SameNormalization ==
  ns.pc \in {"again", "done"} => ns.key = ns.query

SameNormalizationWitness ==
  /\ ns.pc = "again" /\ ns.text = JayZ
  /\ ns.key = JayZKey /\ ns.query = JayZKey

\* ------------------------------------------------------------ discogs offer
Preferred(l) ==
  l.condition \in {"Mint (M)", "Near Mint (NM or M-)", "Very Good Plus (VG+)", "Very Good (VG)"}
Priced(l) == l.price # Null /\ l.price.value > 0
PricedIn(ls) == {i \in DOMAIN ls : Priced(ls[i])}
Chosen == sd.pc \in {"returned", "pushed"}

\* C21: when a listing of the release has a preferred condition and a
\* positive price, the offer searchDiscogs returns has a price that is
\* minimal among all positive-priced listings with a preferred condition.
CheapestPreferred ==
  LET pref == {i \in PricedIn(sd.listings) : Preferred(sd.listings[i])}
  IN (Chosen /\ pref # {}) =>
       /\ sd.value.price # Null
       /\ \A i \in pref : sd.value.price.value <= sd.listings[i].price.value

\* C22: when no listing has a preferred condition and a listing has a
\* positive price, searchDiscogs returns the cheapest positive-priced
\* listing, and searchMarketplace pushes the discogs listing with that price
\* and available = true.
FallbackCheapest ==
  LET priced == PricedIn(sd.listings)
  IN (Chosen /\ priced # {} /\ \A i \in DOMAIN sd.listings : ~Preferred(sd.listings[i])) =>
       /\ sd.value.url = TopRelease
       /\ \E i \in priced :
            /\ sd.value.price = sd.listings[i].price
            /\ sd.value.condition = sd.listings[i].condition
       /\ \A i \in priced : sd.value.price.value <= sd.listings[i].price.value
       /\ sd.pc = "pushed" =>
            /\ sd.pushed.store = "discogs" /\ sd.pushed.url = TopRelease
            /\ sd.pushed.price = sd.value.price
            /\ sd.pushed.available = TRUE

\* Good at 5, Fair at 2 and a Good listing without a price.
FallbackCheapestWitness ==
  /\ sd.pc = "pushed"
  /\ sd.listings = << [condition |-> "Good (G)", price |-> Price(5)],
                      [condition |-> "Fair (F)", price |-> Price(2)],
                      [condition |-> "Good (G)", price |-> NoPrice] >>
  /\ sd.value.condition = "Fair (F)" /\ sd.value.price = Price(2)
  /\ sd.pushed.available = TRUE

\* ------------------------------------------------------------ degradation
ReleaseOnly == [url |-> releaseUrl, price |-> Null, condition |-> Null]
ReleaseOnlyListing ==
  [store |-> "discogs", url |-> releaseUrl, price |-> Null, format |-> Null,
   available |-> FALSE]
ResultsBuilt == call = "searchMarketplace" /\ pc \in {"awaitUpdate", "done"} /\ order # <<>>

\* C23: when the release search found a release and the listings call failed
\* on every attempt, searchDiscogs does not fail: it returns the release URL
\* with price and condition null, and searchMarketplace emits a discogs
\* listing with available = false.
GracefulDegradation ==
  "discogs-listings" \in erred =>
    /\ releaseUrl # Null /\ "discogs" \notin erred
    /\ settled["discogs"] = [status |-> "fulfilled", value |-> ReleaseOnly]
    /\ ResultsBuilt =>
         /\ marketplaceResults # <<>> /\ marketplaceResults[1] = ReleaseOnlyListing
         /\ resp.kind = "ok" => resp.marketplaceResults[1] = ReleaseOnlyListing

GracefulDegradationWitness ==
  /\ call = "searchMarketplace" /\ pc = "done" /\ resp.kind = "ok"
  /\ "discogs-listings" \in erred
  /\ Len(resp.marketplaceResults) = 4
  /\ resp.marketplaceResults[1].store = "discogs"
  /\ resp.marketplaceResults[1].available = FALSE
  /\ resp.marketplaceResults[1].url.q = 7

\* ------------------------------------------------------------ provider query
\* C24: every provider is searched with the combined query artist + title
\* [+ remix]: when remix is non-null, the search URL of each digital-store
\* provider holds the artist, the title and the remix.
QueryIncludesRemix ==
  \A p \in {"beatport", "bandcamp", "juno"} :
    (call = "searchMarketplace" /\ req.remix # "null" /\ Emits(settled[p])) =>
      settled[p].value.url.q = <<req.artist, req.title, req.remix>>

\* ------------------------------------------------------------ retry budget
DigitalStores == {"beatport", "bandcamp", "juno"}
\* The operation whose failure makes a catch block of a provider run.
OperationOf(label) ==
  IF label = "discogs" THEN "search"
  ELSE IF label = "discogs-listings" THEN "listings"
  ELSE label
BudgetSpent(label) ==
  /\ rb.caller = OperationOf(label) /\ rb.pc = "thrown"
  /\ rb.maxRetries = 3 /\ rb.calls = 3
NotRethrown ==
  (call = "searchMarketplace" /\ resp'.kind = "error" /\ resp'.code = "internal") =>
    resp'.message \in StoreFailures

Finished(u) == up.run[u].pc = "done"
BatchCount(n) == (n + BATCH_SIZE - 1) \div BATCH_SIZE

\* C26: when a batch commit fails, every track of that batch is written
\* individually; the upload does not abort and the later batches are still
\* committed; on return success + failed is the number of tracks attempted
\* and failed is the number of individual writes that were rejected.
PartialWriteCounted ==
  \A u \in Uploads :
    Finished(u) =>
      LET p == up.run[u]
      IN /\ p.singles = p.failedCommits
         /\ p.commits = BatchCount(Len(p.newTracks))
         /\ p.result.success + p.result.failed = Len(p.newTracks)
         /\ p.result.failed = Cardinality(p.rejected)
         /\ p.rejected \subseteq p.singles

\* Three new tracks: the first batch fails to commit, of its two individual
\* writes the second is rejected, and the second batch is committed.
PartialWriteCountedWitness ==
  /\ Finished(1) /\ up.run[2].pc = "idle"
  /\ up.run[1].tracks = <<"a", "b", "c">> /\ up.run[1].newTracks = <<"a", "b", "c">>
  /\ up.run[1].failedCommits = {1, 2} /\ up.run[1].rejected = {2}
  /\ up.run[1].commits = 2
  /\ up.run[1].result = [success |-> 2, failed |-> 1, duplicates |-> 0]
  /\ up.tracks = <<"a", "c">>

\* ------------------------------------------------------------ availability
WellFormedListing(l) ==
  /\ l.available => l.price # Null
  /\ l.store \in DigitalStores =>
       /\ ~l.available /\ l.price = Null /\ l.format = Null
       /\ l.url # Null /\ l.url.base = SearchBase(l.store)
WellFormedListings(ls) == \A i \in DOMAIN ls : WellFormedListing(ls[i])

\* C27: every listing searchMarketplace emits has available = true only
\* when a price was resolved (a listing with price null has available =
\* false), and every digital-store listing has available = false with only
\* its URL populated; this holds for the local array, the response and the
\* array written to the track record.
AvailableOnlyWithPrice ==
  /\ WellFormedListings(marketplaceResults)
  /\ (call = "searchMarketplace" /\ resp.kind = "ok") =>
       WellFormedListings(resp.marketplaceResults)
  /\ \A t \in DOMAIN processedTracks :
       WellFormedListings(processedTracks[t].marketplaceResults)

\* A priced discogs offer next to the three digital-store URLs, written to
\* the caller's track.
AvailableOnlyWithPriceWitness ==
  /\ call = "searchMarketplace" /\ pc = "done" /\ resp.kind = "ok"
  /\ req.processedTrackId # NoTrackId
  /\ Len(resp.marketplaceResults) = 4
  /\ resp.marketplaceResults[1].available /\ resp.marketplaceResults[1].price = Price(3)
  /\ ~resp.marketplaceResults[2].available
  /\ processedTracks[req.processedTrackId].marketplaceResults = resp.marketplaceResults

\* ------------------------------------------------------------ playlist job
\* C28: once processPlaylist has created the playlist job with status
\* 'processing', the job is not left in 'processing' when the call has
\* terminated: its status is then 'completed' or 'error', and it is
\* 'completed' only after every track record was written.
JobLeavesProcessing ==
  (call = "processPlaylist" /\ playlistRef # 0) =>
    /\ pc = "done" => playlists[playlistRef].status \in {"completed", "error"}
    /\ playlists[playlistRef].status = "completed" =>
         \A i \in WithVideoId : Cardinality(RecordsOf(i)) = 1

\* -------------------------------------------------------- track ownership
\* C29: searchMarketplace changes the marketplaceResults of a ProcessedTrack
\* record only if the record's userId is the uid of the authenticated
\* caller; no request changes a record owned by another user.
WritesOnlyOwnTrack ==
  [][\A t \in DOMAIN processedTracks :
        processedTracks'[t].marketplaceResults # processedTracks[t].marketplaceResults
          => processedTracks[t].userId = req.auth]_vars

\* ------------------------------------------------------- upload deduplication
\* C30: after any uploads of one user, two concurrent ones included, no two
\* stored tracks of the user have the same searchableString, and for each
\* call that returned, duplicates plus the tracks it attempted to write is
\* the number of tracks it was given.
NoDuplicateStored ==
  /\ \A d, e \in DOMAIN up.tracks : up.tracks[d] = up.tracks[e] => d = e
  /\ \A u \in Uploads :
       Finished(u) =>
         up.run[u].result.duplicates + Len(up.run[u].newTracks) = Len(up.run[u].tracks)
====
